---- MODULE Spec2Model ----
(***************************************************************************)
(* Model of src/src/aseprite.rs: the Aseprite JSON sheet loader.           *)
(*                                                                         *)
(*   Spec       AsepriteState::new on one tag, one loop iteration a step   *)
(*   SpecIter   FramesIter driven directly through Iterator::next          *)
(*   SpecSheet  AsepriteAnimation::new over the tag list                   *)
(*   SpecColor  TryFrom<String> for AsepriteColor                          *)
(*                                                                         *)
(* usize is modelled with the range 0..UsizeMax.  Arithmetic on usize that *)
(* leaves the range panics when the build has overflow checks (the debug   *)
(* profile) and wraps otherwise (the release profile); overflow_checks is  *)
(* chosen in Init and never changes.  An allocation within isize::MAX is   *)
(* assumed to succeed.                                                     *)
(***************************************************************************)
EXTENDS Integers, Sequences, FiniteSets, TLC

VARIABLES
    overflow_checks, \* build profile: TRUE = overflow panics, FALSE = wraps
    frames,          \* AsepriteJson.frames
    tag,             \* the FrameTag handed to AsepriteState::new
    pc,              \* position in the operation being run
    iter,            \* the FramesIter of the running loop
    durations,       \* local `durations` of AsepriteState::new
    atlas_layout,    \* local `atlas_layout`: the textures added so far
    visited,         \* absolute indices handed to AsepriteFrames::get so far
    result,          \* what AsepriteState::new returned
    idxs,            \* SpecIter: what each next_index call returned
    outs,            \* SpecIter: what each next call returned
    tags,            \* AsepriteJson.meta.frame_tags
    tag_i,           \* SpecSheet: number of tags the loop has taken
    states,          \* SpecSheet: local `states` of AsepriteAnimation::new
    labeled,         \* SpecSheet: labels added to the LoadContext
    sheet_result,    \* what AsepriteAnimation::new returned
    value,           \* SpecColor: the color string
    color_result     \* SpecColor: what try_from returned

vars == <<overflow_checks, frames, tag, pc, iter, durations, atlas_layout,
          visited, result, idxs, outs, tags, tag_i, states, labeled,
          sheet_result, value, color_result>>

-----------------------------------------------------------------------------
(* Bounds *)

\* usize::MAX of the modelled target
UsizeMax == 15
\* longest frame list
MaxFrames == 3
\* longest tag list
MaxTags == 2
\* most calls of Iterator::next on one FramesIter
MaxCalls == 10
\* longest color string, in bytes
MaxStrLen == 10

-----------------------------------------------------------------------------
(* Option, Result *)

None == [some |-> FALSE]
Some(v) == [some |-> TRUE, val |-> v]

NoValue == "-"

\* isize::MAX, the largest allocation: Vec::with_capacity panics beyond it
\* (an element counts as one unit)
IsizeMax == UsizeMax \div 2

-----------------------------------------------------------------------------
(* Schema model *)

Forward == "Forward"
Reverse == "Reverse"
AnimationDirection == {Forward, Reverse}

AsepriteRect(x, y, w, h) == [x |-> x, y |-> y, w |-> w, h |-> h]
AsepriteSize(w, h) == [w |-> w, h |-> h]

\* AsepriteRect::size
RectSize(r) == <<r.w, r.h>>

\* From<AsepriteSize> for UVec2
SizeToUVec2(s) == <<s.w, s.h>>

\* From<AsepriteRect> for URect (the coordinates of the model's frames are
\* far from u32::MAX, so the sums do not overflow)
RectToURect(v) == [min |-> <<v.x, v.y>>, max |-> <<v.x + v.w, v.y + v.h>>]

AsepriteFrame(fr, rot, trim, sss, ss, dur) ==
    [frame |-> fr, rotated |-> rot, trimmed |-> trim,
     sprite_source_size |-> sss, source_size |-> ss, duration |-> dur]

\* Two admissible frames, with different durations and positions
FramePlainA ==
    AsepriteFrame(AsepriteRect(0, 0, 2, 2), FALSE, FALSE,
                  AsepriteRect(0, 0, 2, 2), AsepriteSize(2, 2), 100)
FramePlainB ==
    AsepriteFrame(AsepriteRect(2, 0, 2, 2), FALSE, FALSE,
                  AsepriteRect(0, 0, 2, 2), AsepriteSize(2, 2), 150)
\* rotated and nothing else
FrameRotated ==
    AsepriteFrame(AsepriteRect(0, 0, 2, 2), TRUE, FALSE,
                  AsepriteRect(0, 0, 2, 2), AsepriteSize(2, 2), 200)
\* rotated, trimmed, and both sizes differ from the frame rectangle
FrameAllWrong ==
    AsepriteFrame(AsepriteRect(0, 0, 1, 2), TRUE, TRUE,
                  AsepriteRect(1, 0, 2, 2), AsepriteSize(2, 1), 200)
\* the trimmed flag, and the sprite source size differs
FrameTrimmedCel ==
    AsepriteFrame(AsepriteRect(0, 0, 2, 2), FALSE, TRUE,
                  AsepriteRect(0, 0, 2, 1), AsepriteSize(2, 2), 200)
\* only the source size differs
FrameSourceSize ==
    AsepriteFrame(AsepriteRect(0, 0, 2, 1), FALSE, FALSE,
                  AsepriteRect(0, 0, 2, 1), AsepriteSize(2, 2), 200)
\* only the sprite source size differs
FrameCel ==
    AsepriteFrame(AsepriteRect(0, 0, 2, 2), FALSE, FALSE,
                  AsepriteRect(0, 0, 1, 2), AsepriteSize(2, 2), 200)

\* The frames the sheets of the model are made of
FrameValues ==
    {FramePlainA, FramePlainB, FrameRotated, FrameAllWrong, FrameTrimmedCel,
     FrameSourceSize, FrameCel}

SeqsUpTo(S, n) == UNION { [1..k -> S] : k \in 0..n }

\* enum AsepriteFrames
FramesList(l) == [variant |-> "List", list |-> l]
FramesDict == [variant |-> "Dict", list |-> <<>>]

\* AsepriteFrames::get; the Dict arm is todo!()
FramesGet(fs, i) ==
    IF fs.variant = "List"
    THEN IF i < Len(fs.list) THEN Some(fs.list[i + 1]) ELSE None
    ELSE [some |-> FALSE, panic |-> "not yet implemented"]

-----------------------------------------------------------------------------
(* Frame slice sequencer: AsepriteFrames::slice, FramesIter *)

\* slice() with the cursor started at `from` whatever the direction
Slice_StartsAtFrom(from, to, direction) ==
    [direction |-> direction, from |-> from, to |-> to, next_i |-> from]

\* AsepriteFrames::slice
Slice(from, to, direction) ==
    [direction |-> direction, from |-> from, to |-> to,
     next_i |-> IF direction = Forward THEN from ELSE to]

\* FramesIter::next_index: the iterator after the call and what it returned.
\* `next_i += 1` at usize::MAX and `next_i -= 1` at 0 panic or wrap.
NextIndex(it, oc) ==
    IF it.direction = Forward
    THEN IF it.next_i <= it.to
         THEN IF it.next_i = UsizeMax
              THEN IF oc
                   THEN [iter |-> it, out |-> None, panic |-> TRUE]
                   ELSE [iter |-> [it EXCEPT !.next_i = 0], out |-> Some(it.next_i),
                         panic |-> FALSE]
              ELSE [iter |-> [it EXCEPT !.next_i = it.next_i + 1],
                    out |-> Some(it.next_i), panic |-> FALSE]
         ELSE [iter |-> it, out |-> None, panic |-> FALSE]
    ELSE IF it.next_i >= it.from
         THEN IF it.next_i = 0
              THEN IF oc
                   THEN [iter |-> it, out |-> None, panic |-> TRUE]
                   ELSE [iter |-> [it EXCEPT !.next_i = UsizeMax], out |-> Some(it.next_i),
                         panic |-> FALSE]
              ELSE [iter |-> [it EXCEPT !.next_i = it.next_i - 1],
                    out |-> Some(it.next_i), panic |-> FALSE]
         ELSE [iter |-> it, out |-> None, panic |-> FALSE]

\* Iterator::next for FramesIter: next_index().and_then(|i| frames.get(i))
IterNext(it, fs, oc) ==
    LET n == NextIndex(it, oc) IN
    [iter |-> n.iter, panic |-> n.panic, index |-> n.out,
     out |-> IF n.out.some THEN FramesGet(fs, n.out.val) ELSE None]

-----------------------------------------------------------------------------
(* Animation state builder: AsepriteState::new *)

\* enum AsepriteError
Unsupported(msg) == [type |-> "Unsupported", msg |-> msg, from |-> 0, to |-> 0]
InvalidTagRange(from, to) ==
    [type |-> "InvalidTagRange", msg |-> "", from |-> from, to |-> to]

NoError == [type |-> "-", msg |-> "", from |-> 0, to |-> 0]
NoState == [name |-> "-"]
NoIter == [direction |-> "-", from |-> 0, to |-> 0, next_i |-> 0]

Ok(s) == [kind |-> "Ok", state |-> s, err |-> NoError]
Err(e) == [kind |-> "Err", state |-> NoState, err |-> e]
\* the call unwound with a panic instead of returning
Panic(msg) ==
    [kind |-> "Panic", state |-> NoState,
     err |-> [type |-> "panic", msg |-> msg, from |-> 0, to |-> 0]]
Pending == [kind |-> "-", state |-> NoState, err |-> NoError]

FrameTag(name, from, to, direction) ==
    [name |-> name, from |-> from, to |-> to, direction |-> direction]

\* the loop body without its third check
ValidateFrame_NoCelCheck(frame) ==
    IF frame.rotated
    THEN "Frame Rotation"
    ELSE IF frame.trimmed \/ SizeToUVec2(frame.source_size) # RectSize(frame.frame)
    THEN "Sprite Trimming"
    ELSE "ok"

\* The three checks of the loop body, in the order of the code: the message
\* of the first that fails, or "ok".
ValidateFrame(frame) ==
    IF frame.rotated
    THEN "Frame Rotation"
    ELSE IF frame.trimmed \/ SizeToUVec2(frame.source_size) # RectSize(frame.frame)
    THEN "Sprite Trimming"
    ELSE IF RectSize(frame.frame) # RectSize(frame.sprite_source_size)
    THEN "Cel Trimming"
    ELSE "ok"

\* The locals of one call of AsepriteState::new.
Builder(p, it, d, a, v, l, r) ==
    [pc |-> p, iter |-> it, durations |-> d, atlas_layout |-> a,
     visited |-> v, labeled |-> l, result |-> r]

\* AsepriteState::new without the range check
NewEnter_NoRangeCheck(t, fs, oc) ==
    IF fs.variant = "Dict"
    THEN Builder("done", NoIter, <<>>, <<>>, <<>>, <<>>,
                 Err(Unsupported("Frames as dictionary")))
    ELSE Builder("loop", Slice(t.from, t.to, t.direction), <<>>, <<>>, <<>>, <<>>,
                 Pending)

\* AsepriteState::new with the range check ahead of the Dict rejection
NewEnter_RangeFirst(t, fs, oc) ==
    IF t.from > t.to
    THEN Builder("done", NoIter, <<>>, <<>>, <<>>, <<>>,
                 Err(InvalidTagRange(t.from, t.to)))
    ELSE IF fs.variant = "Dict"
    THEN Builder("done", NoIter, <<>>, <<>>, <<>>, <<>>,
                 Err(Unsupported("Frames as dictionary")))
    ELSE Builder("loop", Slice(t.from, t.to, t.direction), <<>>, <<>>, <<>>, <<>>,
                 Pending)

\* AsepriteState::new up to the head of the for loop: the Dict rejection,
\* the range check, Vec::with_capacity(tag.to - tag.from + 1), the empty
\* layout, and frames.slice(..).
NewEnter(t, fs, oc) ==
    IF fs.variant = "Dict"
    THEN Builder("done", NoIter, <<>>, <<>>, <<>>, <<>>,
                 Err(Unsupported("Frames as dictionary")))
    ELSE IF t.from > t.to
    THEN Builder("done", NoIter, <<>>, <<>>, <<>>, <<>>,
                 Err(InvalidTagRange(t.from, t.to)))
    ELSE IF t.to - t.from = UsizeMax /\ oc
    THEN Builder("done", NoIter, <<>>, <<>>, <<>>, <<>>,
                 Panic("attempt to add with overflow"))
    ELSE IF t.to - t.from < UsizeMax /\ t.to - t.from + 1 > IsizeMax
    THEN Builder("done", NoIter, <<>>, <<>>, <<>>, <<>>, Panic("capacity overflow"))
    ELSE Builder("loop", Slice(t.from, t.to, t.direction), <<>>, <<>>, <<>>, <<>>,
                 Pending)

\* One turn of `for frame in frames.slice(..)`: the call of next, and for
\* Some(frame) the loop body.
NewLoop(b, fs, oc) ==
    LET n == IterNext(b.iter, fs, oc)
        seen == IF n.index.some THEN Append(b.visited, n.index.val) ELSE b.visited
    IN  IF n.panic
        THEN [b EXCEPT !.pc = "done", !.iter = n.iter,
                       !.result = Panic("attempt to subtract/add with overflow")]
        ELSE IF ~n.out.some
        THEN [b EXCEPT !.pc = "exit", !.iter = n.iter, !.visited = seen]
        ELSE LET frame == n.out.val
                 check == ValidateFrame(frame)
             IN  IF check # "ok"
                 THEN [b EXCEPT !.pc = "done", !.iter = n.iter, !.visited = seen,
                                !.result = Err(Unsupported(check))]
                 ELSE [b EXCEPT !.iter = n.iter, !.visited = seen,
                                !.atlas_layout = Append(@, RectToURect(frame.frame)),
                                !.durations = Append(@, frame.duration)]

\* AsepriteState::new after the loop: add_labeled_asset(tag.name, layout),
\* first = 0, last = durations.len() - 1, and the assembled state.  The
\* layout stands for its handle; the color, converted from the tag's parsed
\* color without a failure path, is left out.
NewExit(b, t, oc) ==
    IF Len(b.durations) = 0 /\ oc
    THEN [b EXCEPT !.pc = "done", !.labeled = Append(@, t.name),
                   !.result = Panic("attempt to subtract with overflow")]
    ELSE LET first == 0
             last == IF Len(b.durations) = 0 THEN UsizeMax
                     ELSE Len(b.durations) - 1
         IN  [b EXCEPT !.pc = "done", !.labeled = Append(@, t.name),
                       !.result = Ok([name |-> t.name,
                                      direction |-> t.direction,
                                      atlas |-> [layout |-> b.atlas_layout,
                                                 index |-> first],
                                      durations |-> b.durations,
                                      first |-> first,
                                      last |-> last])]

NewStep(b, t, fs, oc) ==
    IF b.pc = "loop" THEN NewLoop(b, fs, oc) ELSE NewExit(b, t, oc)

RECURSIVE NewRun(_, _, _, _)
NewRun(b, t, fs, oc) ==
    IF b.pc = "done" THEN b ELSE NewRun(NewStep(b, t, fs, oc), t, fs, oc)

\* AsepriteState::new as one call
StateNew(t, fs, oc) == NewRun(NewEnter(t, fs, oc), t, fs, oc)

-----------------------------------------------------------------------------
(* Spec: one call of AsepriteState::new *)

\* tag bounds at, inside and beyond the frame list, and usize::MAX
TagIdx == (0..MaxFrames) \cup {UsizeMax}

FrameSheets == {FramesList(l) : l \in SeqsUpTo(FrameValues, MaxFrames)} \cup {FramesDict}

Cur == Builder(pc, iter, durations, atlas_layout, visited, labeled, result)

Load(b) ==
    /\ pc' = b.pc
    /\ iter' = b.iter
    /\ durations' = b.durations
    /\ atlas_layout' = b.atlas_layout
    /\ visited' = b.visited
    /\ labeled' = b.labeled
    /\ result' = b.result

Idle ==
    /\ idxs = <<>> /\ outs = <<>>
    /\ tags = <<>> /\ tag_i = 0 /\ states = <<>>
    /\ sheet_result = Pending
    /\ value = <<>> /\ color_result = NoValue

Init ==
    /\ overflow_checks \in BOOLEAN
    /\ frames \in FrameSheets
    /\ tag \in {FrameTag("idle", f, t, d) : f \in TagIdx, t \in TagIdx,
                                           d \in AnimationDirection}
    /\ pc = "start"
    /\ iter = NoIter
    /\ durations = <<>>
    /\ atlas_layout = <<>>
    /\ visited = <<>>
    /\ labeled = <<>>
    /\ result = Pending
    /\ Idle

Rest == <<overflow_checks, frames, tag, idxs, outs, tags, tag_i, states,
          sheet_result, value, color_result>>

\* lines 58-74: the rejections and the set-up of the loop
StateNewEnter ==
    /\ pc = "start"
    /\ Load(NewEnter(tag, frames, overflow_checks))
    /\ UNCHANGED Rest

\* lines 74-87: one turn of the loop
StateNewLoop ==
    /\ pc = "loop"
    /\ Load(NewLoop(Cur, frames, overflow_checks))
    /\ UNCHANGED Rest

\* lines 88-106: the labeled layout and the returned state
StateNewExit ==
    /\ pc = "exit"
    /\ Load(NewExit(Cur, tag, overflow_checks))
    /\ UNCHANGED Rest

Next == StateNewEnter \/ StateNewLoop \/ StateNewExit

Spec == Init /\ [][Next]_vars

-----------------------------------------------------------------------------
(* SpecIter: a FramesIter driven through Iterator::next *)

\* slice() is reached with a list-form sheet only
ListSheets ==
    {FramesList(l) : l \in SeqsUpTo({FramePlainA, FramePlainB}, MaxFrames)}

IterIdle ==
    /\ tag = FrameTag("-", 0, 0, Forward)
    /\ durations = <<>> /\ atlas_layout = <<>> /\ visited = <<>>
    /\ result = Pending
    /\ tags = <<>> /\ tag_i = 0 /\ states = <<>> /\ labeled = <<>>
    /\ sheet_result = Pending
    /\ value = <<>> /\ color_result = NoValue

InitIter ==
    /\ overflow_checks \in BOOLEAN
    /\ frames \in ListSheets
    /\ pc = "fresh"
    /\ iter = NoIter
    /\ idxs = <<>>
    /\ outs = <<>>
    /\ IterIdle

IterRest == <<overflow_checks, frames, tag, durations, atlas_layout, visited,
              result, tags, tag_i, states, labeled, sheet_result, value,
              color_result>>

\* frames.slice(from, to, direction), with from <= to as AsepriteState::new
\* calls it
IterSlice ==
    /\ pc = "fresh"
    /\ \E from \in 0..UsizeMax, to \in 0..UsizeMax, d \in AnimationDirection :
          /\ from <= to
          /\ iter' = Slice(from, to, d)
    /\ pc' = "iterating"
    /\ UNCHANGED <<idxs, outs, IterRest>>

\* one call of next() on the iterator
IterCallNext ==
    /\ pc = "iterating"
    /\ Len(outs) < MaxCalls
    /\ LET n == IterNext(iter, frames, overflow_checks) IN
          IF n.panic
          THEN /\ pc' = "panicked"
               /\ UNCHANGED <<iter, idxs, outs>>
          ELSE /\ iter' = n.iter
               /\ idxs' = Append(idxs, n.index)
               /\ outs' = Append(outs, n.out)
               /\ pc' = pc
    /\ UNCHANGED IterRest

NextIter == IterSlice \/ IterCallNext

SpecIter == InitIter /\ [][NextIter]_vars

-----------------------------------------------------------------------------
(* SpecSheet: AsepriteAnimation::new *)

TagNames == {"idle", "walk"}

\* tag ranges of the sheets: inside a two-frame list, past its end, inverted
SheetRanges == {<<0, 1>>, <<1, 1>>, <<0, 2>>, <<1, 0>>, <<2, 1>>}

SheetTags ==
    {FrameTag(n, r[1], r[2], d) : n \in TagNames, r \in SheetRanges,
                                  d \in AnimationDirection}

\* two-frame lists of admissible and rotated frames, and the Dict form
SheetFrames ==
    {FramesList(l) : l \in [1..2 -> {FramePlainA, FramePlainB, FrameRotated}]}
    \cup {FramesDict}

\* HashMap::insert
Insert(m, k, v) == [x \in DOMAIN m \cup {k} |-> IF x = k THEN v ELSE m[x]]

AnimationOk(st) ==
    [kind |-> "Ok", state |-> [image |-> "sheet.png", states |-> st],
     err |-> NoError]

InitSheet ==
    /\ overflow_checks \in BOOLEAN
    /\ frames \in SheetFrames
    /\ tags \in SeqsUpTo(SheetTags, MaxTags)
    /\ tag_i = 0
    /\ states = <<>>
    /\ labeled = <<>>
    /\ sheet_result = Pending
    /\ pc = "tags"
    /\ tag = FrameTag("-", 0, 0, Forward)
    /\ iter = NoIter
    /\ durations = <<>> /\ atlas_layout = <<>> /\ visited = <<>>
    /\ result = Pending
    /\ idxs = <<>> /\ outs = <<>>
    /\ value = <<>> /\ color_result = NoValue

SheetRest == <<overflow_checks, frames, tags, tag, iter, durations,
               atlas_layout, visited, result, idxs, outs, value, color_result>>

\* the loop turn with a failed tag skipped instead of returned
AnimationNewTag_SkipsFailed ==
    /\ pc = "tags"
    /\ tag_i < Len(tags)
    /\ LET t == tags[tag_i + 1]
           b == StateNew(t, frames, overflow_checks)
       IN  /\ tag_i' = tag_i + 1
           /\ labeled' = labeled \o b.labeled
           /\ states' = IF b.result.kind = "Ok"
                        THEN Insert(states, t.name, b.result.state)
                        ELSE states
           /\ UNCHANGED <<pc, sheet_result>>
    /\ UNCHANGED SheetRest

\* lines 140-145: one turn of `for tag in &aseprite_json.meta.frame_tags`,
\* with the `?` on the result of AsepriteState::new
AnimationNewTag ==
    /\ pc = "tags"
    /\ tag_i < Len(tags)
    /\ LET t == tags[tag_i + 1]
           b == StateNew(t, frames, overflow_checks)
       IN  /\ tag_i' = tag_i + 1
           /\ labeled' = labeled \o b.labeled
           /\ IF b.result.kind = "Ok"
              THEN /\ states' = Insert(states, t.name, b.result.state)
                   /\ UNCHANGED <<pc, sheet_result>>
              ELSE /\ sheet_result' = b.result
                   /\ pc' = "done"
                   /\ UNCHANGED states
    /\ UNCHANGED SheetRest

\* lines 147-149: the image handle and the returned set
AnimationNewReturn ==
    /\ pc = "tags"
    /\ tag_i = Len(tags)
    /\ sheet_result' = AnimationOk(states)
    /\ pc' = "done"
    /\ UNCHANGED <<tag_i, states, labeled, SheetRest>>

NextSheet == AnimationNewTag \/ AnimationNewReturn

SpecSheet == InitSheet /\ [][NextSheet]_vars

-----------------------------------------------------------------------------
(* SpecColor: TryFrom<String> for AsepriteColor *)

\* A string is its sequence of chars.  The model's chars: '#' (also the
\* one-byte char that is no hex digit), the hex digit 'f', and 'é', which
\* takes two bytes in UTF-8.
Chars == {"#", "f", "é"}

Utf8Len(c) == IF c = "é" THEN 2 ELSE 1

RECURSIVE StrLen(_)
\* String::len: the length in bytes
StrLen(v) == IF v = <<>> THEN 0 ELSE Utf8Len(Head(v)) + StrLen(Tail(v))

\* the strings of exactly n bytes
StringsOfLen[n \in 0..MaxStrLen] ==
    IF n = 0 THEN {<<>>}
    ELSE {Append(v, c) : v \in StringsOfLen[n - 1], c \in {x \in Chars : Utf8Len(x) = 1}}
         \cup (IF n = 1 THEN {}
               ELSE {Append(v, c) : v \in StringsOfLen[n - 2],
                                    c \in {x \in Chars : Utf8Len(x) = 2}})

ColorStrings == UNION {StringsOfLen[n] : n \in 0..MaxStrLen}

\* str::is_char_boundary
IsCharBoundary(v, k) == \E n \in 0..Len(v) : StrLen(SubSeq(v, 1, n)) = k

\* str::get(a..b): the chars between byte offsets a and b, or None
StrGet(v, a, b) ==
    IF b <= StrLen(v) /\ IsCharBoundary(v, a) /\ IsCharBoundary(v, b)
    THEN LET n == CHOOSE n \in 0..Len(v) : StrLen(SubSeq(v, 1, n)) = a
             m == CHOOSE m \in 0..Len(v) : StrLen(SubSeq(v, 1, m)) = b
         IN  Some(SubSeq(v, n + 1, m))
    ELSE None

HexDigit(c) == IF c = "f" THEN Some(15) ELSE None

\* u8::from_str_radix(s, 16) on a string of at most two chars
FromStrRadix16(str) ==
    IF str = <<>> \/ \E k \in 1..Len(str) : ~HexDigit(str[k]).some
    THEN None
    ELSE IF Len(str) = 1 THEN Some(HexDigit(str[1]).val)
    ELSE Some(HexDigit(str[1]).val * 16 + HexDigit(str[2]).val)

\* enum ColorParseError
NoHashtag == [type |-> "NoHashtag", len |-> 0]
WrongLength(n) == [type |-> "WrongLength", len |-> n]
ParseIntError == [type |-> "ParseIntError", len |-> 0]

NoColor == [red |-> 0, green |-> 0, blue |-> 0, alpha |-> 0]
ColorOk(c) == [kind |-> "Ok", color |-> c, err |-> [type |-> "-", len |-> 0]]
ColorErr(e) == [kind |-> "Err", color |-> NoColor, err |-> e]
\* indexing a str off a char boundary panics
ColorPanic == [kind |-> "Panic", color |-> NoColor, err |-> [type |-> "-", len |-> 0]]

\* try_from with the '#' test ahead of the length test
TryFrom_PrefixFirst(v) ==
    IF v = <<>> \/ Head(v) # "#"
    THEN ColorErr(NoHashtag)
    ELSE IF StrLen(v) # 7 /\ StrLen(v) # 9
    THEN ColorErr(WrongLength(StrLen(v)))
    ELSE ColorOk(NoColor)

\* try_from, lines 412-434
TryFrom(v) ==
    IF StrLen(v) # 7 /\ StrLen(v) # 9
    THEN ColorErr(WrongLength(StrLen(v)))
    ELSE IF ~StrGet(v, 0, 1).some
    THEN ColorPanic
    ELSE IF StrGet(v, 0, 1).val # <<"#">>
    THEN ColorErr(NoHashtag)
    ELSE IF ~StrGet(v, 1, 3).some THEN ColorPanic
    ELSE IF ~FromStrRadix16(StrGet(v, 1, 3).val).some THEN ColorErr(ParseIntError)
    ELSE IF ~StrGet(v, 3, 5).some THEN ColorPanic
    ELSE IF ~FromStrRadix16(StrGet(v, 3, 5).val).some THEN ColorErr(ParseIntError)
    ELSE IF ~StrGet(v, 5, 7).some THEN ColorPanic
    ELSE IF ~FromStrRadix16(StrGet(v, 5, 7).val).some THEN ColorErr(ParseIntError)
    ELSE IF StrGet(v, 7, 9).some /\ ~FromStrRadix16(StrGet(v, 7, 9).val).some
    THEN ColorErr(ParseIntError)
    ELSE ColorOk([red |-> FromStrRadix16(StrGet(v, 1, 3).val).val,
                  green |-> FromStrRadix16(StrGet(v, 3, 5).val).val,
                  blue |-> FromStrRadix16(StrGet(v, 5, 7).val).val,
                  alpha |-> IF StrGet(v, 7, 9).some
                            THEN FromStrRadix16(StrGet(v, 7, 9).val).val
                            ELSE 255])

InitColor ==
    /\ value \in ColorStrings
    /\ color_result = NoValue
    /\ pc = "parse"
    /\ overflow_checks = FALSE
    /\ frames = FramesDict
    /\ tag = FrameTag("-", 0, 0, Forward)
    /\ iter = NoIter
    /\ durations = <<>> /\ atlas_layout = <<>> /\ visited = <<>>
    /\ result = Pending
    /\ idxs = <<>> /\ outs = <<>>
    /\ tags = <<>> /\ tag_i = 0 /\ states = <<>> /\ labeled = <<>>
    /\ sheet_result = Pending

ColorTryFrom ==
    /\ pc = "parse"
    /\ color_result' = TryFrom(value)
    /\ pc' = "done"
    /\ UNCHANGED <<overflow_checks, frames, tag, iter, durations, atlas_layout,
                   visited, result, idxs, outs, tags, tag_i, states, labeled,
                   sheet_result, value>>

NextColor == ColorTryFrom

SpecColor == InitColor /\ [][NextColor]_vars

-----------------------------------------------------------------------------
(* Properties *)

Done == pc = "done"

\* what the frame invariants of the data model ask of a frame
Admissible(f) ==
    /\ f.rotated = FALSE
    /\ f.trimmed = FALSE
    /\ f.frame.w = f.source_size.w /\ f.frame.h = f.source_size.h
    /\ f.frame.w = f.sprite_source_size.w /\ f.frame.h = f.sprite_source_size.h

\* the flat frame with absolute index i
Flat(i) == frames.list[i + 1]

TagLen == tag.to - tag.from + 1

\* the absolute index played at local index k (zero-based) of the tag
Played(k) == IF tag.direction = Forward THEN tag.from + k ELSE tag.to - k

Returned == Done /\ result.kind = "Ok"

\* C1: on a list-form sheet and a tag with from <= to, a returned state has
\* exactly to - from + 1 durations, also when the range reaches the end of
\* the frame list or lies beyond it.
C1_DurationsCoverTag ==
    (Returned /\ frames.variant = "List" /\ tag.from <= tag.to)
        => Len(result.state.durations) = TagLen

\* C2: for a tag whose frames from..to all exist and are admissible, the
\* durations of the built state are those of the frames in playback order:
\* durations[k] is the duration of flat frame from+k (Forward) or to-k
\* (Reverse), for every k in 0..to-from.
C2_DurationsInPlaybackOrder ==
    (/\ Returned
     /\ tag.to < Len(frames.list)
     /\ \A i \in tag.from..tag.to : Admissible(Flat(i)))
        => /\ Len(result.state.durations) = TagLen
           /\ \A k \in 0..(tag.to - tag.from) :
                 result.state.durations[k + 1] = Flat(Played(k)).duration

\* a Reverse tag of two frames with different durations, built with
\* overflow checks on
C2_Witness ==
    /\ Returned
    /\ overflow_checks
    /\ tag.direction = Reverse
    /\ tag.to - tag.from = 1
    /\ tag.to < Len(frames.list)
    /\ Len(result.state.durations) = 2
    /\ result.state.durations[1] # result.state.durations[2]

\* C3: Reverse sequencing with from <= to: next_index yields to, to-1, ...,
\* from (to - from + 1 indices, strictly descending) and None afterwards,
\* and the cursor next_i never leaves the range of usize on the way.
C3_ReverseDescendsThenExhausts ==
    (iter.direction = Reverse /\ pc \in {"iterating", "panicked"})
        => /\ pc # "panicked"
           /\ iter.next_i <= iter.to
           /\ \A k \in 1..Len(idxs) :
                 IF k <= iter.to - iter.from + 1
                 THEN idxs[k].some /\ idxs[k].val = iter.to - (k - 1)
                 ELSE ~idxs[k].some

\* the frames of the tag's range that exist, and the first rotated one in
\* sequencing order
RotatedInRange ==
    {i \in tag.from..tag.to : i < Len(frames.list) /\ Flat(i).rotated}
FirstRotated ==
    IF tag.direction = Forward
    THEN CHOOSE i \in RotatedInRange : \A j \in RotatedInRange : i <= j
    ELSE CHOOSE i \in RotatedInRange : \A j \in RotatedInRange : i >= j
\* the frames sequenced before absolute index i
Before(i) ==
    {j \in tag.from..tag.to : j < Len(frames.list) /\
        IF tag.direction = Forward THEN j < i ELSE j > i}

\* C4: if a frame of the tag's range is rotated (and no frame sequenced
\* before the first such frame is otherwise inadmissible), construction
\* fails with Unsupported("Frame Rotation") at that frame, and no state is
\* returned.
C4_RotatedFrameFailsTag ==
    (/\ Done
     /\ frames.variant = "List"
     /\ tag.from <= tag.to
     /\ RotatedInRange # {}
     /\ \A j \in Before(FirstRotated) : Admissible(Flat(j)))
        => /\ result = Err(Unsupported("Frame Rotation"))
           /\ visited # <<>>
           /\ visited[Len(visited)] = FirstRotated

\* C8: every frame that contributed a duration and a rectangle is
\* admissible (not rotated, not trimmed, frame extents equal to source size
\* and to sprite source size), and a frame error is that of the first
\* failing check in the order rotation, sprite trimming, cel trimming.
C8_OnlyAdmissibleFramesContribute ==
    (pc \in {"loop", "exit", "done"} /\ frames.variant = "List")
        => /\ Len(atlas_layout) = Len(durations)
           /\ Len(durations) <= Len(visited)
           /\ \A k \in 1..Len(durations) :
                 /\ visited[k] < Len(frames.list)
                 /\ Admissible(Flat(visited[k]))
                 /\ durations[k] = Flat(visited[k]).duration
                 /\ atlas_layout[k].min = <<Flat(visited[k]).frame.x,
                                            Flat(visited[k]).frame.y>>
           /\ (Returned =>
                 /\ result.state.durations = durations
                 /\ result.state.atlas.layout = atlas_layout)
           /\ (Done /\ result.kind = "Err" /\ result.err.type = "Unsupported"
               /\ visited # <<>>)
                 => LET f == Flat(visited[Len(visited)]) IN
                    result.err.msg =
                        IF f.rotated THEN "Frame Rotation"
                        ELSE IF f.trimmed \/ f.source_size.w # f.frame.w
                                \/ f.source_size.h # f.frame.h
                        THEN "Sprite Trimming"
                        ELSE "Cel Trimming"

\* after one contributing frame, a frame that is rotated and trimmed fails
\* the tag with the rotation error
C8_Witness ==
    /\ Done
    /\ Len(durations) >= 1
    /\ result = Err(Unsupported("Frame Rotation"))
    /\ Flat(visited[Len(visited)]).trimmed

NothingVisited ==
    visited = <<>> /\ durations = <<>> /\ atlas_layout = <<>> /\ labeled = <<>>

\* C9 as stated: for any tag with from > to, construction fails with
\* InvalidTagRange(from, to) before any frame is visited, whatever the
\* direction and the frames.
C9_InvertedRangeFails ==
    (pc # "start" /\ tag.from > tag.to)
        => /\ Done
           /\ result = Err(InvalidTagRange(tag.from, tag.to))
           /\ NothingVisited

\* C9, amended: on a list-form sheet, for any tag with from > to,
\* construction fails with InvalidTagRange(from, to) before any frame is
\* visited, whatever the direction and the frames; on a Dict sheet the
\* dictionary rejection comes first.
C9_InvertedRangeFailsOnList ==
    (pc # "start" /\ tag.from > tag.to)
        => /\ Done
           /\ NothingVisited
           /\ result = IF frames.variant = "List"
                       THEN Err(InvalidTagRange(tag.from, tag.to))
                       ELSE Err(Unsupported("Frames as dictionary"))

\* an inverted Reverse tag over a list holding an inadmissible frame
C9_Witness ==
    /\ Done
    /\ frames.variant = "List"
    /\ Len(frames.list) = MaxFrames
    /\ \E i \in 1..Len(frames.list) : ~Admissible(frames.list[i])
    /\ tag.direction = Reverse
    /\ tag.from > tag.to
    /\ result.err.type = "InvalidTagRange"

\* C10: once next has returned None, every later call of next on the same
\* iterator returns None.
C10_OnceNoneAlwaysNone ==
    \A i \in 1..Len(outs) : \A j \in 1..Len(outs) :
        (i < j /\ ~outs[i].some) => ~outs[j].some

\* what AsepriteState::new returns for the k-th tag of the sheet
TagResult(k) == StateNew(tags[k], frames, overflow_checks).result
FailedTags == {k \in 1..Len(tags) : TagResult(k).kind # "Ok"}
FirstFailed == CHOOSE k \in FailedTags : \A j \in FailedTags : k <= j

DictError == Err(Unsupported("Frames as dictionary"))

\* C5 as stated: a sheet whose frames are the Dict variant always gets
\* Unsupported("Frames as dictionary") from AsepriteAnimation::new, whatever
\* its tags, the empty tag list included.
C5_DictAlwaysRejected ==
    (Done /\ frames.variant = "Dict") => sheet_result = DictError

\* C5, amended: a Dict sheet with at least one tag gets
\* Unsupported("Frames as dictionary") from AsepriteAnimation::new, raised
\* by its first tag whatever the tag ranges, and never an AnimationSet; a
\* Dict sheet without tags gets an empty AnimationSet.
C5_DictRejectedByFirstTag ==
    (Done /\ frames.variant = "Dict")
        => IF tags # <<>>
           THEN sheet_result = DictError /\ tag_i = 1 /\ states = <<>>
           ELSE sheet_result = AnimationOk(<<>>)

\* a Dict sheet of two tags, the first with an inverted range
C5_Witness ==
    /\ Done
    /\ frames.variant = "Dict"
    /\ Len(tags) = 2
    /\ tags[1].from > tags[1].to
    /\ sheet_result = DictError

StartsWithHash(v) == v # <<>> /\ Head(v) = "#"

LastNamed(n) ==
    CHOOSE k \in 1..Len(tags) :
        tags[k].name = n /\ \A j \in 1..Len(tags) : tags[j].name = n => j <= k

\* C7: tags are taken in declared order; the first tag whose construction
\* fails ends the call with that tag's failure, no later tag is taken and
\* no AnimationSet is returned; an AnimationSet is returned only when every
\* tag's construction succeeded.
C7_SheetFailFast ==
    /\ tag_i <= Len(tags)
    /\ Len(labeled) <= tag_i
    /\ pc = "tags" => \A k \in 1..tag_i : TagResult(k).kind = "Ok"
    /\ Done =>
          IF FailedTags = {}
          THEN /\ tag_i = Len(tags)
               /\ sheet_result = AnimationOk(states)
               /\ DOMAIN states = {tags[k].name : k \in 1..Len(tags)}
               /\ \A n \in DOMAIN states : states[n] = TagResult(LastNamed(n)).state
          ELSE /\ tag_i = FirstFailed
               /\ sheet_result = TagResult(FirstFailed)
               /\ sheet_result.kind # "Ok"

\* two tags failing with different errors: the sheet fails with the first
C7_Witness ==
    /\ Done
    /\ Len(tags) = 2
    /\ TagResult(1).kind = "Err"
    /\ TagResult(2).kind = "Err"
    /\ TagResult(1) # TagResult(2)
    /\ sheet_result = TagResult(1)
    /\ tag_i = 1

\* C11: every returned state has at least one duration and the local index
\* range first = 0, last = durations.len() - 1, with atlas.index = first;
\* the subtraction never underflows, also for a tag with from <= to whose
\* range lies partly or wholly beyond the end of the frame list.
C11_LocalIndexRange ==
    /\ (Done /\ tag.from <= tag.to)
          => result # Panic("attempt to subtract with overflow")
    /\ Returned
          => /\ Len(result.state.durations) >= 1
             /\ result.state.first = 0
             /\ result.state.last = Len(result.state.durations) - 1
             /\ result.state.atlas.index = result.state.first

====
